---- MODULE Spec2Model ----
(***************************************************************************)
(* A model of enhanced_slime_mold.py: the Environment fields, the particle *)
(* list of SlimeMold, one pass of SlimeMold.update, and the event handlers *)
(* of SlimeMoldSimulator that change simulation state.                     *)
(*                                                                         *)
(* Units (every real of the source is kept as an integer multiple):        *)
(*   position, speed, displacement   1/1000 cell                           *)
(*   angle                           pi/16 (headings are taken mod 2*pi)   *)
(*   energy                          0.0025                                *)
(*   food                            0.5                                   *)
(*   pheromone, trail_strength       1/1000                                *)
(*   temperature                     0.1 degree                            *)
(*   moisture                        0.05                                  *)
(*   sensor_distance                 0.5 cell                              *)
(*   sensor reading                  1/4000                                *)
(* Arithmetic on these multiples is exact; a product with a cosine is      *)
(* rounded toward zero to the position unit.                               *)
(*                                                                         *)
(* SlimeMold.update is one pass: UpdateBegin, UpdateParticle once per      *)
(* visited index, UpdateEnd; nothing else runs while idx >= 1.  run()      *)
(* handles the pending events and then calls update max(1, int(m)) times   *)
(* per frame; the model lets events and updates alternate freely, so every *)
(* run of the program is a run of the model.  paused and show_debug hold   *)
(* no simulation state and are left out.                                   *)
(***************************************************************************)
EXTENDS Integers, Sequences, FiniteSets, TLC

\* ------------------------------------------------------------------ bounds

\* Grid size in cells (800 x 600 in SlimeMoldSimulator.__init__).
Width == 3
Height == 2
\* Particles created per species (species_params[...]['count'] is 200).
Count == 1
\* Radius of the start disk, in position units (random.uniform(0, 50) of 800).
InitRadius == 500
\* Reproductions explored: the particle list stops growing by reproduction
\* at 3 * Count + MaxChildren particles.
MaxChildren == 1
\* Operations explored in one run: sub-steps (calls of SlimeMold.update) plus
\* simulator events.
MaxOps == 4

\* --------------------------------------------------------------- constants

\* particle.energy bounds and steps, in units of 0.0025.
MaxEnergy == 40000
EnergyGain == 8000
ReproduceThreshold == 32000
ReproduceCost == 12000
ChildEnergy == 20000
\* 0.005 per sub-step, in units of 0.0025.
EnergyDecay == 2
\* The speed floor 0.1, in position units.
MinSpeed == 100
\* food 1.0 and consumption_rate 0.5, in units of 0.5.
FullFood == 2
ConsumptionRate == 1
\* The pheromone cap 1.0, in units of 1/1000.
MaxPheromone == 1000
\* The obstacle reading -1.0, in units of 1/4000.
ObstacleReading == -4000
\* sensor_angle pi/4, rotation_angle pi/8, the bounce pi, in units of pi/16.
SensorAngle == 4
RotationAngle == 2
HalfTurn == 16

Species == {"PHYSARUM", "DICTYOSTELIUM", "FULIGO"}
\* The iteration order of `for species in Species`.
SpeciesOrder == <<"PHYSARUM", "DICTYOSTELIUM", "FULIGO">>

species_params ==
  [s \in Species |->
     CASE s = "PHYSARUM" ->
            [speed |-> 1000, sensor_distance |-> 9, trail_strength |-> 1000,
             moisture_pref |-> 14, temp_pref |-> 250, count |-> Count]
       [] s = "DICTYOSTELIUM" ->
            [speed |-> 1500, sensor_distance |-> 7, trail_strength |-> 800,
             moisture_pref |-> 16, temp_pref |-> 220, count |-> Count]
       [] OTHER ->
            [speed |-> 800, sensor_distance |-> 11, trail_strength |-> 1200,
             moisture_pref |-> 12, temp_pref |-> 200, count |-> Count]]

SpeedNames == {"normal", "fast", "supaslime"}
\* speed_settings[...]['simulation_speed'], and 0.99 ** (1 / simulation_speed)
\* in units of 1/10000.
speed_settings ==
  [n \in SpeedNames |->
     CASE n = "normal" -> [simulation_speed |-> 1, decay |-> 9900]
       [] n = "fast" -> [simulation_speed |-> 3, decay |-> 9967]
       [] OTHER -> [simulation_speed |-> 6, decay |-> 9983]]

\* list(speed_settings.keys())[(index + 1) % 3]
NextSpeed(n) ==
  CASE n = "normal" -> "fast"
    [] n = "fast" -> "supaslime"
    [] OTHER -> "normal"

Cells == (0 .. Width - 1) \X (0 .. Height - 1)

\* ------------------------------------------------------------------ state

VARIABLES
  particles,                 \* SlimeMold.particles, a list of Particle
  temperature_map,           \* Environment fields, one value per cell
  moisture_map,
  obstacle_map,
  food_map,
  pheromone_map,
  pheromone_decay_rate,      \* Environment rates
  temperature_change_rate,
  moisture_change_rate,
  active_species,            \* SlimeMoldSimulator.active_species
  current_speed,             \* SlimeMoldSimulator.current_speed
  clock,                     \* quarter of the day/night cycle the ticks are in
  idx,                       \* position of the for loop of SlimeMold.update
                             \* (0: no update is running)
  startIds,                  \* history: ids in the list when the pass began
  nextId,                    \* history: identity of the next Particle object
  dead,                      \* history: ids dropped by the energy filter
  last,                      \* history: what the last step did
  steps,                     \* sub-steps completed
  events                     \* simulator events handled

vars ==
  <<particles, temperature_map, moisture_map, obstacle_map, food_map,
    pheromone_map, pheromone_decay_rate, temperature_change_rate,
    moisture_change_rate, active_species, current_speed, clock, idx,
    startIds, nextId, dead, last, steps, events>>

fields ==
  <<temperature_map, moisture_map, obstacle_map, food_map, pheromone_map>>

rates ==
  <<pheromone_decay_rate, temperature_change_rate, moisture_change_rate>>

\* ---------------------------------------------------------------- helpers

Max(a, b) == IF a >= b THEN a ELSE b
Min(a, b) == IF a <= b THEN a ELSE b
Abs(a) == IF a >= 0 THEN a ELSE -a

\* Division rounding toward zero (b > 0).
TruncDiv(a, b) == IF a >= 0 THEN a \div b ELSE -((-a) \div b)

\* int(v) of a coordinate: truncation toward zero, in cells.
IntOf(v) == TruncDiv(v, 1000)

\* 1000 * cos(k * pi / 16) for k = 0 .. 8.
QuarterCos == <<1000, 981, 924, 831, 707, 556, 383, 195, 0>>

\* 1000 * math.cos(h * pi / 16)
Cos(h) ==
  LET k == h % 32
  IN  IF k <= 8 THEN QuarterCos[k + 1]
      ELSE IF k <= 16 THEN -QuarterCos[16 - k + 1]
      ELSE IF k <= 24 THEN -QuarterCos[k - 16 + 1]
      ELSE QuarterCos[32 - k + 1]

\* 1000 * math.sin(h * pi / 16)
Sin(h) == Cos(h + 24)

\* dist * cos, in position units.
Along(dist, c) == TruncDiv(dist * c, 1000)

Ids(ps) == {ps[i].id : i \in 1 .. Len(ps)}

OfSpecies(ps, s) == SelectSeq(ps, LAMBDA p : p.species = s)
NotOfSpecies(ps, s) == SelectSeq(ps, LAMBDA p : p.species # s)

\* ------------------------------------------------------- Particle creation

\* The random draws of one new particle at start, toggle or reset: the polar
\* position on the start disk and the heading.
InitDraws ==
  { [radius |-> 0, angle |-> 0, heading |-> 0],
    [radius |-> InitRadius, angle |-> 16, heading |-> 16] }

\* Particle(...) as initialize_particles, toggle_species and reset_simulation
\* build it.  moisture_preference, temperature_preference, trail_strength,
\* sensor_angle and rotation_angle are never assigned after construction and
\* are read from species_params / the constants.
NewParticle(id, species, d) ==
  [id |-> id,
   x |-> (Width \div 2) * 1000 + Along(d.radius, Cos(d.angle)),
   y |-> (Height \div 2) * 1000 + Along(d.radius, Sin(d.angle)),
   angle |-> d.heading,
   speed |-> species_params[species].speed,
   species |-> species,
   energy |-> MaxEnergy,
   sensor_distance |-> 2 * species_params[species].sensor_distance,
   deadline |-> MaxEnergy]

\* The lists of particles the loops of initialize_particles / reset_simulation
\* can build for the species of `act`, ids from `first` on.
RECURSIVE Populations(_, _, _)
Populations(order, act, first) ==
  IF order = <<>> THEN {<<>>}
  ELSE IF ~act[Head(order)] THEN Populations(Tail(order), act, first)
  ELSE LET n == species_params[Head(order)].count
       IN  { [i \in 1 .. n |-> NewParticle(first + i - 1, Head(order), ds[i])] \o rest :
               ds \in [1 .. n -> InitDraws],
               rest \in Populations(Tail(order), act, first + n) }

\* ------------------------------------------------------------ Environment

\* generate_environment: the noise layout, here a fixed one.
InitTemperature == [c \in Cells |-> 250]
InitMoisture == [c \in Cells |-> 14]
InitObstacle == [c \in Cells |-> IF c = <<Width - 1, Height - 1>> THEN 1 ELSE 0]
InitFood == [c \in Cells |-> IF c[2] = Height \div 2 /\ c[1] <= Width \div 2 THEN FullFood ELSE 0]

NoLast == [op |-> "none"]

AllActive == [s \in Species |-> TRUE]

InitCommon ==
  /\ temperature_map = InitTemperature
  /\ moisture_map = InitMoisture
  /\ obstacle_map = InitObstacle
  /\ food_map = InitFood
  /\ pheromone_map = [c \in Cells |-> 0]
  /\ pheromone_decay_rate = speed_settings["normal"].decay
  /\ temperature_change_rate = 1
  /\ moisture_change_rate = 1
  /\ active_species = AllActive
  /\ current_speed = "normal"
  /\ clock = 1
  /\ idx = 0
  /\ startIds = {}
  /\ nextId = 3 * Count + 1
  /\ dead = {}
  /\ last = NoLast
  /\ steps = 0
  /\ events = 0

\* SlimeMoldSimulator.__init__: SlimeMold(...) with initialize_particles, then
\* update_simulation_speed at 'normal'.
Init ==
  /\ InitCommon
  /\ particles \in Populations(SpeciesOrder, AllActive, 1)

\* ---------------------------------------------------------- SlimeMold.update

\* is_obstacle(x, y)
is_obstacle(x, y) ==
  obstacle_map[<<IntOf(x) % Width, IntOf(y) % Height>>] = 1

\* get_sensor_value(x, y, particle), with the maps as they are at the call.
get_sensor_value(x, y, particle) ==
  LET c == <<IntOf(x) % Width, IntOf(y) % Height>>
  IN  IF is_obstacle(x, y) THEN ObstacleReading
      ELSE IF food_map[c] > 0
           THEN food_map[c] * (48000 - particle.energy) * 25
           ELSE 2 * pheromone_map[c]

\* The rule with the left / right comparison inverted.
DecideInverted(front_val, left_val, right_val) ==
  IF front_val > left_val /\ front_val > right_val THEN "keep"
  ELSE IF left_val < right_val THEN "left"
  ELSE "right"

\* The keep / left / right rule on the three readings.
Decide(front_val, left_val, right_val) ==
  IF front_val > left_val /\ front_val > right_val THEN "keep"
  ELSE IF left_val > right_val THEN "left"
  ELSE "right"

\* The turn of one species for a decision.
Turn(species, decision) ==
  LET r == IF species = "FULIGO" THEN RotationAngle \div 2 ELSE RotationAngle
  IN  CASE decision = "keep" -> 0
        [] decision = "left" -> -r
        [] OTHER -> r

\* random.uniform(-pi/4, pi/4) of DICTYOSTELIUM.
RandomTurns == {4}

\* particle.speed after the stress of the cell the particle is in.
StressedSpeed(p) ==
  LET c == <<IntOf(p.x), IntOf(p.y)>>
      temp_diff == Abs(temperature_map[c] - species_params[p.species].temp_pref)
      moisture_diff == Abs(moisture_map[c] - species_params[p.species].moisture_pref)
  IN  Max(MinSpeed, (p.speed * (1000 - temp_diff - 5 * moisture_diff)) \div 1000)

\* A decay that stops for a particle at the speed floor.
EnergyLossMovingOnly(speed) == IF Abs(speed) > MinSpeed THEN EnergyDecay ELSE 0

\* movement_factor applied to the decay of 0.005.
EnergyLoss(speed) == IF Abs(speed) > MinSpeed THEN EnergyDecay ELSE EnergyDecay \div 2

\* A feed step without the cap.
FedEnergyUncapped(energy, food) == IF food > 0 THEN energy + EnergyGain ELSE energy

\* Energy after the feed step on a cell holding `food`.
FedEnergy(energy, food) ==
  IF food > 0 THEN Min(MaxEnergy, energy + EnergyGain) ELSE energy

\* Food left after the feed step.
EatenFood(food) == IF food > 0 THEN Max(0, food - ConsumptionRate) ELSE food

\* A deposit without the cap.
DepositUncapped(pheromone, strength) == pheromone + strength

\* Pheromone of a cell after a deposit.
Deposit(pheromone, strength) == Min(MaxPheromone, pheromone + strength)

\* A wrap that only folds the far edge back.
WrapFarEdgeOnly(v, size) == IF v >= size THEN v - size ELSE v

\* `particle.x %= self.width`: the remainder has the sign of the size.
Wrap(v, size) == v % size

\* The reproduction test on the energy after feed and decay.
CanReproduce(energy) == energy > ReproduceThreshold

\* A parent charged the child's energy.
ParentEnergyHalved(energy) == energy - ChildEnergy

\* The parent's energy after reproduction.
ParentEnergy(energy) == energy - ReproduceCost

\* The new deadline of a particle: the sub-steps it may still live without
\* food, ceil(energy / 0.0025), counted from the last boundary it fed at.  A
\* deadline that has passed stays at -1.
NextDeadline(deadline, energy, fed) ==
  IF fed THEN energy ELSE Max(-1, Min(deadline - 1, energy))

\* The child appended by reproduction.
Child(id, parent, heading) ==
  [id |-> id, x |-> parent.x, y |-> parent.y, angle |-> heading,
   speed |-> parent.speed, species |-> parent.species, energy |-> ChildEnergy,
   sensor_distance |-> parent.sensor_distance, deadline |-> ChildEnergy]

\* `for particle in self.particles` begins.
UpdateBegin ==
  /\ idx = 0
  /\ steps + events < MaxOps
  /\ idx' = 1
  /\ startIds' = Ids(particles)
  /\ last' = [op |-> "begin"]
  /\ UNCHANGED <<clock, particles, fields, rates, active_species, current_speed,
                 nextId, dead, steps, events>>

\* The loop visits index `i` while it is within the list as it is now.
LoopHasNext == idx >= 1 /\ idx <= Len(particles)

\* random.uniform(0, 2 * pi) of a child.
ChildHeadings == {8}

\* The three readings of particle p: get_sensor_value at the front, left and
\* right probe, sensor_dist away.
Readings(p) ==
  LET sensor_dist == (p.sensor_distance * (60000 - p.energy)) \div 40
      Probe(a) == get_sensor_value(p.x + Along(sensor_dist, Cos(a)),
                                   p.y + Along(sensor_dist, Sin(a)), p)
  IN  [front |-> Probe(p.angle),
       left |-> Probe(p.angle - SensorAngle),
       right |-> Probe(p.angle + SensorAngle)]

\* The move of p at `speed` along `angle`: the candidate, the obstacle test,
\* the bounce and the wrap.
Moved(p, speed, angle) ==
  LET new_x == p.x + Along(speed, Cos(angle))
      new_y == p.y + Along(speed, Sin(angle))
      blocked == is_obstacle(new_x, new_y)
  IN  [new_x |-> new_x, new_y |-> new_y, blocked |-> blocked,
       x |-> Wrap(IF blocked THEN p.x ELSE new_x, Width * 1000),
       y |-> Wrap(IF blocked THEN p.y ELSE new_y, Height * 1000),
       angle |-> (IF blocked THEN angle + HalfTurn ELSE angle) % 32]

\* One iteration of the loop, for particles[idx].  Each intermediate value of
\* the body is bound once, in the order the body computes it.
UpdateParticle ==
  /\ LoopHasNext
  /\ \E p \in {particles[idx]} :
     \E speed \in {StressedSpeed(p)}, r \in {Readings(p)} :
     \E ruled \in {Decide(r.front, r.left, r.right)} :
     \E random_turn \in (IF p.species = "DICTYOSTELIUM" THEN RandomTurns ELSE {}) \cup {0} :
     \E mv \in {Moved(p, speed, IF random_turn # 0 THEN p.angle + random_turn
                                ELSE p.angle + Turn(p.species, ruled))} :
     \E c \in {<<IntOf(mv.x), IntOf(mv.y)>>} :
     \E fed \in {food_map[c] > 0} :
     \E energy2 \in {FedEnergy(p.energy, food_map[c]) - EnergyLoss(speed)} :
     \E deadline2 \in {NextDeadline(p.deadline, energy2, fed)} :
     \E moved \in {[p EXCEPT !.x = mv.x, !.y = mv.y, !.angle = mv.angle, !.speed = speed,
                             !.energy = energy2, !.deadline = deadline2]} :
     \E step \in {[op |-> "particle", id |-> p.id, front |-> r.front,
                   left |-> r.left, right |-> r.right,
                   decision |-> IF random_turn # 0 THEN "random" ELSE ruled,
                   new_x |-> mv.new_x, new_y |-> mv.new_y, blocked |-> mv.blocked,
                   fed |-> fed, mid |-> energy2]} :
       /\ pheromone_map' =
            IF c \in Cells
            THEN [pheromone_map EXCEPT ![c] =
                    Deposit(@, species_params[p.species].trail_strength)]
            ELSE pheromone_map
       /\ food_map' = [food_map EXCEPT ![c] = EatenFood(@)]
       /\ \/ /\ particles' = [particles EXCEPT ![idx] = moved]
             /\ nextId' = nextId
             /\ last' = step @@ [reproduced |-> FALSE]
          \/ /\ CanReproduce(energy2)
             /\ Len(particles) < 3 * Count + MaxChildren
             /\ \E heading \in ChildHeadings :
                \E parent \in {[moved EXCEPT !.energy = ParentEnergy(energy2),
                                             !.deadline = Min(deadline2, ParentEnergy(energy2))]} :
                  particles' = Append([particles EXCEPT ![idx] = parent],
                                      Child(nextId, parent, heading))
             /\ nextId' = nextId + 1
             /\ last' = step @@ [reproduced |-> TRUE]
  /\ idx' = idx + 1
  /\ UNCHANGED <<clock, temperature_map, moisture_map, obstacle_map, rates,
                 active_species, current_speed, startIds, dead, steps, events>>

\* Environment.update: sin(time / 60) and cos(time / 60) in the four quarters
\* of the cycle, in the order the ticks run through them.
TimePhases == <<(<<1, 0>>), (<<0, -1>>), (<<-1, 0>>), (<<0, 1>>)>>

\* pheromone_map *= pheromone_decay_rate, for one cell.
Decayed(pheromone, rate) == (pheromone * rate) \div 10000

\* The filter `p.energy > 0`.
Alive(p) == p.energy > 0

\* The loop is over: environment.update(), then the dead are dropped.
UpdateEnd ==
  /\ idx >= 1
  /\ ~LoopHasNext
  /\ \E ph \in {TimePhases[clock]} :
       /\ temperature_map' = [c \in Cells |-> temperature_map[c] + ph[1] * temperature_change_rate]
       /\ moisture_map' = [c \in Cells |-> moisture_map[c] + ph[2] * moisture_change_rate]
  /\ pheromone_map' = [c \in Cells |-> Decayed(pheromone_map[c], pheromone_decay_rate)]
  /\ clock' = (clock % Len(TimePhases)) + 1
  /\ particles' = SelectSeq(particles, Alive)
  /\ dead' = dead \cup {particles[i].id : i \in {j \in 1 .. Len(particles) : ~Alive(particles[j])}}
  /\ idx' = 0
  /\ steps' = Min(steps + 1, MaxOps)
  /\ last' = [op |-> "end", removed |-> Len(particles) - Len(SelectSeq(particles, Alive))]
  /\ startIds' = {}
  /\ UNCHANGED <<obstacle_map, food_map, rates, active_species, current_speed,
                 nextId, events>>

\* ------------------------------------------------------ SlimeMoldSimulator

\* sensor_distance of a species at a speed factor: base * (1 + (m - 1) * 0.5),
\* in units of 0.5.
ScaledSensorDistance(species, m) == species_params[species].sensor_distance * (m + 1)

\* The per-particle loop of update_simulation_speed.
Rescaled(ps, m) ==
  [i \in 1 .. Len(ps) |->
     [ps[i] EXCEPT !.speed = species_params[ps[i].species].speed * m,
                   !.sensor_distance = ScaledSensorDistance(ps[i].species, m)]]

\* update_simulation_speed for the selector `name`.
update_simulation_speed(name) ==
  LET m == speed_settings[name].simulation_speed
  IN  /\ particles' = Rescaled(particles, m)
      /\ pheromone_decay_rate' = speed_settings[name].decay
      /\ temperature_change_rate' = m
      /\ moisture_change_rate' = m

\* An event is handled between two updates.
EventReady == idx = 0 /\ steps + events < MaxOps

\* K_s: the next selector, then update_simulation_speed.
CycleSpeed ==
  /\ EventReady
  /\ current_speed' = NextSpeed(current_speed)
  /\ update_simulation_speed(NextSpeed(current_speed))
  /\ events' = events + 1
  /\ last' = [op |-> "speed"]
  /\ UNCHANGED <<clock, fields, active_species, startIds, nextId, dead, steps, idx>>

\* The particles toggle_species appends for a species switched on.
Spawned(species, first) ==
  LET n == species_params[species].count
  IN  { [i \in 1 .. n |-> NewParticle(first + i - 1, species, ds[i])] :
          ds \in [1 .. n -> InitDraws] }

\* A toggle that forgets the filter.
ToggledUnfiltered(ps, act, species, fresh) ==
  IF act[species] THEN ps \o fresh ELSE ps

\* The list after toggle_species: the filter on the new flags, then the append.
Toggled(ps, act, species, fresh) ==
  LET kept == SelectSeq(ps, LAMBDA p : act[p.species])
  IN  IF act[species] THEN kept \o fresh ELSE kept

\* K_1, K_2, K_3: toggle_species(species).
toggle_species(species) ==
  /\ EventReady
  /\ LET act == [active_species EXCEPT ![species] = ~@]
     IN  /\ active_species' = act
         /\ \E fresh \in Spawned(species, nextId) :
              particles' = Toggled(particles, act, species, fresh)
         /\ nextId' = IF act[species] THEN nextId + species_params[species].count ELSE nextId
  /\ events' = events + 1
  /\ last' = [op |-> "toggle", species |-> species]
  /\ UNCHANGED <<clock, fields, rates, current_speed, startIds, dead, steps, idx>>

\* A reset that rebuilds every species.
ResetEverySpecies(act, first) == Populations(SpeciesOrder, AllActive, first)

\* The list reset_simulation builds.
ResetPopulations(act, first) == Populations(SpeciesOrder, act, first)

\* K_r: reset_simulation.
reset_simulation ==
  /\ EventReady
  /\ particles' \in ResetPopulations(active_species, nextId)
  /\ nextId' = nextId + Len(particles')
  /\ events' = events + 1
  /\ last' = [op |-> "reset"]
  /\ UNCHANGED <<clock, fields, rates, active_species, current_speed, startIds, dead, steps, idx>>

\* pygame.mouse.get_pos(), as a cell of the window.
MouseCells == {<<0, 0>>, <<Width \div 2, Height \div 2>>}

\* K_f: food_map[x, y] = 1.0 at the mouse position.
DepositFood ==
  /\ EventReady
  /\ \E c \in MouseCells : food_map' = [food_map EXCEPT ![c] = FullFood]
  /\ events' = events + 1
  /\ last' = [op |-> "food"]
  /\ UNCHANGED <<clock, particles, temperature_map, moisture_map, obstacle_map, pheromone_map,
                 rates, active_species, current_speed, startIds, nextId, dead, steps, idx>>

Next ==
  \/ UpdateBegin
  \/ UpdateParticle
  \/ UpdateEnd
  \/ CycleSpeed
  \/ \E species \in Species : toggle_species(species)
  \/ reset_simulation
  \/ DepositFood

Spec == Init /\ [][Next]_vars

\* A population that has run for a while: each particle is as constructed, or
\* has decayed to a few units of energy at the speed floor.
AgedEnergies == {1, 2}

Aged(ps, old, e) ==
  [i \in 1 .. Len(ps) |->
     IF i = old
     THEN [ps[i] EXCEPT !.energy = e, !.deadline = e, !.speed = MinSpeed]
     ELSE ps[i]]

InitAged ==
  /\ InitCommon
  /\ \E ps \in Populations(SpeciesOrder, AllActive, 1), old \in 1 .. 3 * Count,
        e \in AgedEnergies :
       particles = Aged(ps, old, e)

SpecAged == InitAged /\ [][Next]_vars

\* run() calls update on every frame for as long as the window is open: the
\* passes of a run that handles no key or mouse event.
UpdateForever ==
  /\ idx = 0
  /\ idx' = 1
  /\ startIds' = Ids(particles)
  /\ last' = [op |-> "begin"]
  /\ UNCHANGED <<clock, particles, fields, rates, active_species, current_speed,
                 nextId, dead, steps, events>>

\* A state late in a run: the food is eaten down to one bite on the centre
\* cell, one particle is a feed short of the reproduction threshold and the
\* others are about to starve.
LiveFood == [c \in Cells |-> IF c = <<Width \div 2, Height \div 2>> THEN ConsumptionRate ELSE 0]

LiveEnergies ==
  <<ReproduceThreshold - EnergyGain + 2 * EnergyDecay, EnergyDecay, EnergyDecay>>

\* The draw of the start that puts a particle on the centre, heading east.
LiveDraw == [radius |-> 0, angle |-> 0, heading |-> 0]

InitLive ==
  /\ temperature_map = InitTemperature
  /\ moisture_map = InitMoisture
  /\ obstacle_map = InitObstacle
  /\ food_map = LiveFood
  /\ pheromone_map = [c \in Cells |-> 0]
  /\ active_species = AllActive
  /\ clock = 1
  /\ idx = 0
  /\ startIds = {}
  /\ nextId = Len(SpeciesOrder) + 1
  /\ dead = {}
  /\ last = NoLast
  /\ steps = 0
  /\ events = 0
  /\ \E d \in InitDraws \cap {LiveDraw}, name \in SpeedNames :
       /\ current_speed = name
       /\ pheromone_decay_rate = speed_settings[name].decay
       /\ temperature_change_rate = speed_settings[name].simulation_speed
       /\ moisture_change_rate = speed_settings[name].simulation_speed
       /\ particles =
            Rescaled([i \in 1 .. Len(SpeciesOrder) |->
                        [NewParticle(i, SpeciesOrder[i], d) EXCEPT
                           !.energy = LiveEnergies[i], !.deadline = LiveEnergies[i]]],
                     speed_settings[name].simulation_speed)

NextLive == UpdateForever \/ UpdateParticle \/ UpdateEnd

SpecLive == InitLive /\ [][NextLive]_vars /\ WF_vars(NextLive)

\* ------------------------------------------------------------------ claims

Multiplier == speed_settings[current_speed].simulation_speed

InGrid(p) ==
  /\ 0 <= p.x /\ p.x < Width * 1000
  /\ 0 <= p.y /\ p.y < Height * 1000

CountOf(ps, s) == Len(OfSpecies(ps, s))

\* C1: every particle processed in a sub-step was in the list when the
\* sub-step began (a child born in the pass is not visited in that pass).
C1_ChildNotProcessed ==
  last.op = "particle" => last.id \in startIds

\* C2: at every sub-step boundary each particle has 0 < energy <= 100, so
\* none with energy <= 0 is left by the filter and no feed exceeds 100.
C2_EnergyBounds ==
  idx = 0 => \A i \in 1 .. Len(particles) :
               particles[i].energy > 0 /\ particles[i].energy <= MaxEnergy

\* C2 witness: after two sub-steps and no event a dead particle has been
\* dropped, and a survivor is within one decay of 100, which only a feed cut
\* at the cap in the last sub-step leaves.
C2_Witness ==
  /\ idx = 0
  /\ steps = 2
  /\ events = 0
  /\ dead # {}
  /\ \E i \in 1 .. Len(particles) : particles[i].energy >= MaxEnergy - EnergyDecay

\* C3: every particle's position is inside the grid, 0 <= x < width and
\* 0 <= y < height, in every state.
C3_Wraparound ==
  \A i \in 1 .. Len(particles) : InGrid(particles[i])

\* C3 witness: a particle has just committed a move whose candidate lay
\* outside the grid, below 0 or at or beyond the far edge.
C3_Witness ==
  /\ last.op = "particle"
  /\ ~last.blocked
  /\ \/ last.new_x < 0
     \/ last.new_x >= Width * 1000
     \/ last.new_y < 0
     \/ last.new_y >= Height * 1000

\* C4: every cell has 0 <= pheromone <= 1 and 0 <= food <= 1, in every state.
C4_FieldBounds ==
  \A c \in Cells :
    /\ 0 <= pheromone_map[c] /\ pheromone_map[c] <= MaxPheromone
    /\ 0 <= food_map[c] /\ food_map[c] <= FullFood

\* C4 witness: FULIGO (trail_strength 1.2) has just deposited on a cell that
\* is now at the cap, and some cell's food has been eaten.
C4_Witness ==
  /\ last.op = "particle"
  /\ \E i \in 1 .. Len(particles) :
       /\ particles[i].id = last.id
       /\ particles[i].species = "FULIGO"
       /\ pheromone_map[<<IntOf(particles[i].x), IntOf(particles[i].y)>>] = MaxPheromone
  /\ \E c \in Cells : food_map[c] < InitFood[c]

\* C5: an iteration of the pass appends at most one particle; when it appends
\* one, the energy after feed and decay was above 80, the parent is charged
\* exactly 30 and keeps more than 50, and the child has energy 50, the
\* parent's species and the parent's wrapped position after the move; no
\* other particle changes.
C5_Reproduction ==
  [][(idx >= 1 /\ idx' = idx + 1) =>
       LET n == Len(particles)
           parent == particles'[idx]
           child == particles'[n + 1]
       IN  /\ Len(particles') \in {n, n + 1}
           /\ \A j \in 1 .. n : j # idx => particles'[j] = particles[j]
           /\ last'.reproduced <=> Len(particles') = n + 1
           /\ ~last'.reproduced => parent.energy = last'.mid
           /\ last'.reproduced =>
                /\ last'.mid > ReproduceThreshold
                /\ last'.mid <= MaxEnergy
                /\ parent.energy = last'.mid - ReproduceCost
                /\ parent.energy > ChildEnergy
                /\ child.energy = ChildEnergy
                /\ child.species = parent.species
                /\ child.species = particles[idx].species
                /\ child.x = parent.x /\ child.y = parent.y
                /\ InGrid(child)
                /\ ~last'.blocked =>
                     /\ (child.x - last'.new_x) % (Width * 1000) = 0
                     /\ (child.y - last'.new_y) % (Height * 1000) = 0
                /\ last'.blocked =>
                     child.x = particles[idx].x /\ child.y = particles[idx].y]_vars

\* C5 witness: the last iteration reproduced.
C5_Witness ==
  last.op = "particle" /\ last.reproduced

\* C6: a particle that does not stand on food is gone after at most
\* ceil(energy / 0.0025) further sub-steps (its deadline never reaches 0
\* while it is in the list at a boundary); the per-particle pass removes
\* nothing; the end of the sub-step removes exactly the particles with
\* energy <= 0; and a removed particle is never in the list again.
C6_DeathState ==
  /\ idx = 0 => \A i \in 1 .. Len(particles) :
                  particles[i].deadline > 0 /\ particles[i].energy > 0
  /\ \A i \in 1 .. Len(particles) : particles[i].id \notin dead

C6_DeathStep ==
  /\ (idx >= 1 /\ idx' = idx + 1) =>
       /\ \A j \in 1 .. Len(particles) : particles'[j].id = particles[j].id
       /\ dead' = dead
  /\ (idx >= 1 /\ idx' = 0) =>
       /\ Ids(particles') = {particles[j].id : j \in {k \in 1 .. Len(particles) :
                                                       particles[k].energy > 0}}
       /\ dead' = dead \cup (Ids(particles) \ Ids(particles'))

C6_Death == []C6_DeathState /\ [][C6_DeathStep]_vars

\* C6 witness: a particle that started with energy 0.005 at the speed floor
\* was dropped at the end of its second sub-step, others surviving.
C6_Witness ==
  /\ idx = 0
  /\ steps = 2
  /\ events = 0
  /\ last.op = "end" /\ last.removed = 1
  /\ Len(particles) >= 2

\* C7: a toggle of a species leaves every particle of the other species as it
\* was, leaves none of the species when it switches it off and exactly its
\* count when it switches it on; and no particle of an inactive species is
\* ever in the list.
C7_ToggleState ==
  \A s \in Species : ~active_species[s] => CountOf(particles, s) = 0

C7_ToggleStep ==
  \A s \in Species :
    active_species'[s] # active_species[s] =>
      /\ NotOfSpecies(particles', s) = NotOfSpecies(particles, s)
      /\ \A t \in Species \ {s} : active_species'[t] = active_species[t]
      /\ CountOf(particles', s) = IF active_species'[s] THEN species_params[s].count ELSE 0

C7_Toggle == []C7_ToggleState /\ [][C7_ToggleStep]_vars

\* C7 witness: a species that was switched off has just been switched on
\* again, with a sub-step in between.
C7_Witness ==
  /\ last.op = "toggle"
  /\ active_species[last.species]
  /\ events = 2
  /\ steps = 1

\* C8: a reset leaves the five fields, the active flags and the speed selector
\* as they were, and leaves exactly the count of every active species, nothing
\* of an inactive one, all with energy 100.
C8_ResetStep ==
  (last'.op = "reset" /\ events' = events + 1) =>
    /\ fields' = fields
    /\ active_species' = active_species
    /\ current_speed' = current_speed
    /\ \A s \in Species :
         CountOf(particles', s) = IF active_species[s] THEN species_params[s].count ELSE 0
    /\ \A i \in 1 .. Len(particles') : particles'[i].energy = MaxEnergy

C8_Reset == [][C8_ResetStep]_vars

\* C8 witness: a reset has just run with a species off, after a sub-step that
\* left pheromone on the grid.
C8_Witness ==
  /\ last.op = "reset"
  /\ \E s \in Species : ~active_species[s]
  /\ \E c \in Cells : pheromone_map[c] > 0

Reading(l, decision) ==
  CASE decision = "keep" -> l.front
    [] decision = "left" -> l.left
    [] OTHER -> l.right

\* C9: every reading is the obstacle value -1 or is >= 0, and when a reading
\* is not an obstacle the rule (keep, left, right) picks a direction whose
\* reading is not an obstacle.
C9_Steering ==
  last.op = "particle" =>
    /\ \A v \in {last.front, last.left, last.right} : v = ObstacleReading \/ v >= 0
    /\ (last.decision # "random"
        /\ \E v \in {last.front, last.left, last.right} : v # ObstacleReading)
         => Reading(last, last.decision) # ObstacleReading

\* C9 witness: the rule has just decided with the left probe on an obstacle
\* and the front reading not the strict maximum.
C9_Witness ==
  /\ last.op = "particle"
  /\ last.decision = "right"
  /\ last.left = ObstacleReading

\* C10: every particle's sensor_distance is its species' base distance times
\* 1 + (m - 1) * 0.5 for the multiplier m of the selected speed.
C10_SensorDistance ==
  \A i \in 1 .. Len(particles) :
    particles[i].sensor_distance = ScaledSensorDistance(particles[i].species, Multiplier)

\* The cell a particle occupies is an obstacle cell.
OnObstacle(p) == obstacle_map[<<IntOf(p.x), IntOf(p.y)>>] = 1

\* C11: a particle that is not on an obstacle cell when its loop iteration
\* starts is not on an obstacle cell when the iteration ends, also when its
\* candidate position crosses the 0 edge or the width/height edge.
C11_ObstacleFree ==
  [][(idx > 0 /\ idx' = idx + 1 /\ ~OnObstacle(particles[idx]))
       => ~OnObstacle(particles'[idx])]_vars

\* C12: with no food deposit, toggle or reset, continued sub-steps empty the
\* particle list and it stays empty, whatever the random turns and the
\* reproduction draws are.
C12_Extinction == <>[](particles = <<>>)

\* C12 witness: the list is empty after the one bite of food was eaten, a
\* child was born, and every particle there ever was has been dropped.
C12_Witness ==
  /\ particles = <<>>
  /\ idx = 0
  /\ \A c \in Cells : food_map[c] = 0
  /\ nextId > Len(SpeciesOrder) + 1
  /\ dead = 1 .. (nextId - 1)

====
